---- MODULE Spec2Model ----
(***************************************************************************)
(* A model of suaviloquence/regex-impl.                                    *)
(*                                                                         *)
(*   src/src/nondeterministic.rs  Regex::from_simple_expression compiles a *)
(*       pattern, read back to front, into a graph of reference-counted    *)
(*       State cells; Regex::test runs the graph over a subject with the   *)
(*       two sets of a Step.                                               *)
(*   src/src/tokenize.rs          Tokens::tokenize_regex, a recursive      *)
(*       descent tokenizer of a richer syntax (groups, anchors, escapes).  *)
(*                                                                         *)
(* A character is a one-character string; a pattern or a subject is a      *)
(* sequence of characters.  A pointer (Rc or Weak) is the index of a cell  *)
(* of `heap`, and 0 is None.                                               *)
(***************************************************************************)
EXTENDS Integers, Sequences, FiniteSets, TLC

VARIABLES
    expression,   \* from_simple_expression's argument
    chars,        \* the reversed iterator: expression[chars] is read next
    next,         \* from_simple_expression's local `next` (0: None)
    heap,         \* the State cells allocated so far, with their strong counts
    head,         \* Regex.head of the returned Regex (0: None)
    pc,           \* where the caller of Regex is
    string,       \* test's argument
    pos,          \* the characters of `string` the for loop has consumed
    step,         \* test's local Step
    result,       \* what test returned
    tokInput,     \* tokenize_regex's argument
    tokPc,        \* where the caller of Tokens is
    tokResult     \* what tokenize_regex returned

vars == <<expression, chars, next, heap, head, pc, string, pos, step, result,
          tokInput, tokPc, tokResult>>

regexVars == <<expression, chars, next, heap, head, pc, string, pos, step, result>>
tokVars == <<tokInput, tokPc, tokResult>>

----------------------------------------------------------------------------
(* Bounds of the model *)

\* the longest pattern drawn from the whole pattern alphabet
MaxPat == 3
\* the longest subject drawn from the whole subject alphabet
MaxSub == 4

Letters == {"a", "b"}
Modifiers == {"?", "*", "+"}
PatChars == Letters \cup Modifiers \cup {".", "/"}

SeqsUpTo(S, n) == UNION {[1..k -> S] : k \in 0..n}

\* patterns and subjects of the repository's tests, of main.rs and of the
\* specification's examples
ExamplePatterns ==
    { <<"a", "b", "c">>,
      <<"a", "b", "?", "c">>,
      <<"a", "b", "*", "c">>,
      <<"a", "b", "+", "c">>,
      <<"a", ".", "c">>,
      <<"l", "b", "s", "?">>,
      <<"w", "h", "a", "?", "/">>,
      <<"a", "?", "a", "?", "a", "?">>,
      <<"(", "a", "b", ")", "+">>,
      <<"f", "r", "e", "*", "o", "r", "+", ".", "n", "?", "g", "e">> }

ExampleSubjects ==
    { <<"a", "c">>, <<"a", "b", "c">>, <<"a", "b", "b", "c">>,
      <<"a", "b", "b", "b", "c">>, <<"a", "x", "c">>, <<"a", "c", "b">>,
      <<"a", "b", "a", "b">>, <<"a", "b", "a", "b", "a", "b">>,
      <<"b", "a", "b", " ", "a", "b", "c">>,
      <<"a", "b", "a", "c", "b", "a", "c">>,
      <<"l", "b">>, <<"l", "b", "s">>, <<"l", "s">>,
      <<"f", "r", "o", "r", "a", "n", "g", "e">>,
      <<"f", "r", "e", "e", "o", "a", "n", "g", "e">> }

\* `^p$` for the literal sequences p
Anchored == {<<"^">> \o p \o <<"$">> : p \in SeqsUpTo(Letters, MaxPat - 1)}

Expressions == SeqsUpTo(PatChars, MaxPat) \cup Anchored \cup ExamplePatterns
Subjects == SeqsUpTo(Letters, MaxSub) \cup ExampleSubjects

----------------------------------------------------------------------------
(* nondeterministic.rs: the State graph *)

\* Option<char>::None
NoChar == ""

\* struct State { value: MatchValue, next: Option<Rc<State>> }, in its RcBox:
\* kind/c/branch/weak are the MatchValue (weak: the branch is Ptr::Weak),
\* strong is the Rc's strong count.
NewState(kind, c, branch, weak, nxt) ==
    [kind |-> kind, c |-> c, branch |-> branch, weak |-> weak, next |-> nxt,
     strong |-> 1]

\* Rc::clone of an Option<Rc<State>>: one more strong reference
RcClone(h, p) == IF p = 0 THEN h ELSE [h EXCEPT ![p].strong = @ + 1]

\* dropping one Rc<State>: one strong reference less.  A cell whose count
\* reaches 0 is dropped in place and so releases its own `next`; its
\* allocation, and the bits in it, stay while a Weak still points at it.
RECURSIVE RcDrop(_, _)
RcDrop(h, p) ==
    IF p = 0 THEN h
    ELSE LET h1 == [h EXCEPT ![p].strong = @ - 1]
         IN  IF h1[p].strong = 0 THEN RcDrop(h1, h1[p].next) ELSE h1

\* get_value without its check for a modifier: `?`, `*` and `+` pass as
\* characters
get_value_lax(c) ==
    IF c = NoChar THEN [ok |-> FALSE, kind |-> "", c |-> ""]
    ELSE IF c = "." THEN [ok |-> TRUE, kind |-> "Wildcard", c |-> ""]
    ELSE [ok |-> TRUE, kind |-> "Char", c |-> c]

\* fn get_value(c: Option<char>) -> Result<MatchValue, Error>
get_value(c) ==
    IF c \in Modifiers \/ c = NoChar THEN [ok |-> FALSE, kind |-> "", c |-> ""]
    ELSE IF c = "." THEN [ok |-> TRUE, kind |-> "Wildcard", c |-> ""]
    ELSE [ok |-> TRUE, kind |-> "Char", c |-> c]

\* chars.next() of the reversed iterator, k characters still unread
CharsNext(k) == IF k >= 1 THEN expression[k] ELSE NoChar

\* MatchValue::matches; never meant to see a Split
matches(cell, value) ==
    IF cell.kind = "Char" THEN cell.c = value ELSE TRUE

\* Step::default().  `panic` records that matches() met its unreachable!()
\* arm, `calls` counts the invocations of add_state since the Step was made.
StepDefault ==
    [current |-> {}, next |-> {}, matched |-> FALSE, panic |-> FALSE,
     calls |-> 0]

\* add_state putting the Split itself into `next`, along with its closure
RECURSIVE add_state_keeps_split(_, _)
add_state_keeps_split(st, s) ==
    LET cell == heap[s]
        st0 == [st EXCEPT !.calls = @ + 1, !.next = @ \cup {s}]
    IN  IF cell.kind \in {"Char", "Wildcard"}
        THEN st0
        ELSE LET st1 == add_state_keeps_split(st0, cell.branch)
             IN  IF cell.next # 0 THEN add_state_keeps_split(st1, cell.next)
                 ELSE [st1 EXCEPT !.matched = TRUE]

\* Step::add_state.  Ptr::as_ref reads the branch cell whatever its strong
\* count: the allocation of a cell dropped in place is still held by the
\* Weak, and nothing has written to it since, so the read finds the cell's
\* last value.
RECURSIVE add_state(_, _)
add_state(st, s) ==
    LET cell == heap[s]
        st0 == [st EXCEPT !.calls = @ + 1]
    IN  IF cell.kind \in {"Char", "Wildcard"}
        THEN [st0 EXCEPT !.next = @ \cup {s}]
        ELSE LET st1 == add_state(st0, cell.branch)
             IN  IF cell.next # 0 THEN add_state(st1, cell.next)
                 ELSE [st1 EXCEPT !.matched = TRUE]

\* the orders in which a HashSet may hand out its elements: every
\* arrangement of the set in a sequence
RECURSIVE IterOrders(_)
IterOrders(S) ==
    IF S = {} THEN {<<>>}
    ELSE UNION {{<<x>> \o rest : rest \in IterOrders(S \ {x})} : x \in S}

\* the body of the for loop of Step::step that stops at the first state it
\* has something to do for
StepVisit_first_only(st, s, to_match) ==
    LET cell == heap[s] IN
    IF st.next # {} \/ st.matched THEN st
    ELSE IF cell.kind = "Split" THEN [st EXCEPT !.panic = TRUE]
    ELSE IF matches(cell, to_match)
    THEN IF cell.next # 0 THEN add_state(st, cell.next)
         ELSE [st EXCEPT !.matched = TRUE]
    ELSE st

\* the body of the for loop of Step::step, for the state s
StepVisit(st, s, to_match) ==
    LET cell == heap[s] IN
    IF cell.kind = "Split" THEN [st EXCEPT !.panic = TRUE]
    ELSE IF matches(cell, to_match)
    THEN IF cell.next # 0 THEN add_state(st, cell.next)
         ELSE [st EXCEPT !.matched = TRUE]
    ELSE st

\* the for loop of Step::step over `states`, the Vec collected from
\* `current` in the order the HashSet's iterator gave
RECURSIVE StepLoop(_, _, _)
StepLoop(st, states, to_match) ==
    IF states = <<>> THEN st
    ELSE StepLoop(StepVisit(st, Head(states), to_match), Tail(states), to_match)

\* Step::step clearing `matched` as well as `next`
Step_step_resets(st, to_match, states) ==
    LET swapped == [st EXCEPT !.current = st.next, !.next = {}, !.matched = FALSE]
    IN  StepLoop(swapped, states, to_match)

\* Step::step: swap current and next, clear next, then the loop; `states`
\* is the order in which the new `current` is iterated
Step_step(st, to_match, states) ==
    LET swapped == [st EXCEPT !.current = st.next, !.next = {}]
    IN  StepLoop(swapped, states, to_match)

----------------------------------------------------------------------------
(* Regex::from_simple_expression, one action per arm of its loop *)

InLoop == pc = "compile" /\ expression # <<>> /\ chars >= 1

\* an early return through `?`: every local is dropped, and with `next` the
\* cells built so far
ReturnErr ==
    /\ pc' = "err"
    /\ heap' = <<>>
    /\ next' = 0
    /\ chars' = 0
    /\ UNCHANGED <<expression, head, string, pos, step, result>>

\* if expression.is_empty() { return Ok(Default::default()) }
EmptyExpression ==
    /\ UNCHANGED tokVars
    /\ pc = "compile"
    /\ expression = <<>>
    /\ pc' = "ok"
    /\ head' = 0
    /\ UNCHANGED <<expression, chars, next, heap, string, pos, step, result>>

\* '?' => a Split whose strong branch is the operand; both lead to `next`
ArmOptional ==
    /\ UNCHANGED tokVars
    /\ InLoop
    /\ expression[chars] = "?"
    /\ LET value == get_value(CharsNext(chars - 1))
           b == Len(heap) + 1
           sp == Len(heap) + 2
       IN  IF ~value.ok THEN ReturnErr
           ELSE /\ heap' = RcClone(heap, next)
                             \o <<NewState(value.kind, value.c, 0, FALSE, next),
                                  NewState("Split", "", b, FALSE, next)>>
                /\ next' = sp
                /\ chars' = chars - 2
                /\ UNCHANGED <<expression, head, pc, string, pos, step, result>>

\* the '+' arm with the Split looping back on itself, not on the operand
ArmPlus_branch_is_split ==
    /\ UNCHANGED tokVars
    /\ InLoop
    /\ expression[chars] = "+"
    /\ LET value == get_value(CharsNext(chars - 1))
           state == Len(heap) + 1
           sp == Len(heap) + 2
       IN  IF ~value.ok THEN ReturnErr
           ELSE /\ heap' = heap
                             \o <<NewState(value.kind, value.c, 0, FALSE, sp),
                                  NewState("Split", "", sp, TRUE, next)>>
                /\ next' = state
                /\ chars' = chars - 2
                /\ UNCHANGED <<expression, head, pc, string, pos, step, result>>

\* '+' => the operand, then a Split whose weak branch is the operand again;
\* the entry is the operand
ArmPlus ==
    /\ UNCHANGED tokVars
    /\ InLoop
    /\ expression[chars] = "+"
    /\ LET value == get_value(CharsNext(chars - 1))
           state == Len(heap) + 1
           sp == Len(heap) + 2
       IN  IF ~value.ok THEN ReturnErr
           ELSE /\ heap' = heap
                             \o <<NewState(value.kind, value.c, 0, FALSE, sp),
                                  NewState("Split", "", state, TRUE, next)>>
                /\ next' = state
                /\ chars' = chars - 2
                /\ UNCHANGED <<expression, head, pc, string, pos, step, result>>

\* the '*' arm ending like the '+' arm: the entry is the operand
ArmStar_entry_operand ==
    /\ UNCHANGED tokVars
    /\ InLoop
    /\ expression[chars] = "*"
    /\ LET value == get_value(CharsNext(chars - 1))
           state == Len(heap) + 1
           sp == Len(heap) + 2
       IN  IF ~value.ok THEN ReturnErr
           ELSE /\ heap' = heap
                             \o <<NewState(value.kind, value.c, 0, FALSE, sp),
                                  NewState("Split", "", state, TRUE, next)>>
                /\ next' = state
                /\ chars' = chars - 2
                /\ UNCHANGED <<expression, head, pc, string, pos, step, result>>

\* '*' => the same two cells, but the entry is the Split: `next` takes a
\* clone of state.next and the only Rc of the operand, the local `state`,
\* goes out of scope at the end of the arm
ArmStar ==
    /\ UNCHANGED tokVars
    /\ InLoop
    /\ expression[chars] = "*"
    /\ LET value == get_value(CharsNext(chars - 1))
           state == Len(heap) + 1
           sp == Len(heap) + 2
           built == heap
                      \o <<NewState(value.kind, value.c, 0, FALSE, sp),
                           NewState("Split", "", state, TRUE, next)>>
       IN  IF ~value.ok THEN ReturnErr
           ELSE /\ heap' = RcDrop(RcClone(built, sp), state)
                /\ next' = sp
                /\ chars' = chars - 2
                /\ UNCHANGED <<expression, head, pc, string, pos, step, result>>

\* the '/' arm passing the character before it through get_value
ArmSlash_get_value ==
    /\ UNCHANGED tokVars
    /\ InLoop
    /\ expression[chars] = "/"
    /\ LET value == get_value(CharsNext(chars - 1))
       IN  IF ~value.ok THEN ReturnErr
           ELSE /\ heap' = Append(heap, NewState(value.kind, value.c, 0, FALSE, next))
                /\ next' = Len(heap) + 1
                /\ chars' = chars - 2
                /\ UNCHANGED <<expression, head, pc, string, pos, step, result>>

\* '/' => the character before it, taken literally
ArmSlash ==
    /\ UNCHANGED tokVars
    /\ InLoop
    /\ expression[chars] = "/"
    /\ LET c == CharsNext(chars - 1)
       IN  IF c = NoChar THEN ReturnErr
           ELSE /\ heap' = Append(heap, NewState("Char", c, 0, FALSE, next))
                /\ next' = Len(heap) + 1
                /\ chars' = chars - 2
                /\ UNCHANGED <<expression, head, pc, string, pos, step, result>>

\* '.' => Wildcard
ArmDot ==
    /\ UNCHANGED tokVars
    /\ InLoop
    /\ expression[chars] = "."
    /\ heap' = Append(heap, NewState("Wildcard", "", 0, FALSE, next))
    /\ next' = Len(heap) + 1
    /\ chars' = chars - 1
    /\ UNCHANGED <<expression, head, pc, string, pos, step, result>>

\* _ => Char(c)
ArmChar ==
    /\ UNCHANGED tokVars
    /\ InLoop
    /\ expression[chars] \notin Modifiers \cup {"/", "."}
    /\ heap' = Append(heap, NewState("Char", expression[chars], 0, FALSE, next))
    /\ next' = Len(heap) + 1
    /\ chars' = chars - 1
    /\ UNCHANGED <<expression, head, pc, string, pos, step, result>>

\* Ok(Self { head: next })
ReturnOk ==
    /\ UNCHANGED tokVars
    /\ pc = "compile"
    /\ expression # <<>>
    /\ chars = 0
    /\ pc' = "ok"
    /\ head' = next
    /\ next' = 0
    /\ UNCHANGED <<expression, chars, heap, string, pos, step, result>>

----------------------------------------------------------------------------
(* Regex::test *)

\* the None arm of test answering false
TestNone_false ==
    /\ UNCHANGED tokVars
    /\ pc = "ok"
    /\ head = 0
    /\ \E s \in Subjects : string' = s
    /\ result' = FALSE
    /\ pc' = "done"
    /\ UNCHANGED <<expression, chars, next, heap, head, pos, step>>

\* None => true
TestNone ==
    /\ UNCHANGED tokVars
    /\ pc = "ok"
    /\ head = 0
    /\ \E s \in Subjects : string' = s
    /\ result' = TRUE
    /\ pc' = "done"
    /\ UNCHANGED <<expression, chars, next, heap, head, pos, step>>

\* Some(state) => { let mut step = Step::default(); ...
TestSome ==
    /\ UNCHANGED tokVars
    /\ pc = "ok"
    /\ head # 0
    /\ \E s \in Subjects : string' = s
    /\ step' = StepDefault
    /\ pos' = 0
    /\ pc' = "test"
    /\ UNCHANGED <<expression, chars, next, heap, head, result>>

\* for ch in string.chars() { step.add_state(state); step.step(ch); }
TestChar ==
    /\ UNCHANGED tokVars
    /\ pc = "test"
    /\ pos < Len(string)
    /\ LET seeded == add_state(step, head)
       IN  \E states \in IterOrders(seeded.next) :
               step' = Step_step(seeded, string[pos + 1], states)
    /\ pos' = pos + 1
    /\ UNCHANGED <<expression, chars, next, heap, head, pc, string, result>>

\* step.matched
TestReturn ==
    /\ UNCHANGED tokVars
    /\ pc = "test"
    /\ pos = Len(string)
    /\ result' = step.matched
    /\ pc' = "done"
    /\ UNCHANGED <<expression, chars, next, heap, head, string, pos, step>>

\* one of the orders of IterOrders(S)
RECURSIVE SomeOrder(_)
SomeOrder(S) ==
    IF S = {} THEN <<>>
    ELSE LET x == CHOOSE y \in S : TRUE IN <<x>> \o SomeOrder(S \ {x})

\* test's Step after the first k characters of str, on the graph of `head`,
\* when every HashSet iterates in the order SomeOrder gives
RECURSIVE StepAfter(_, _)
StepAfter(str, k) ==
    IF k = 0 THEN StepDefault
    ELSE LET seeded == add_state(StepAfter(str, k - 1), head)
         IN  Step_step(seeded, str[k], SomeOrder(seeded.next))

\* Regex::test as a function of the subject, in that order
TestOf(str) == IF head = 0 THEN TRUE ELSE StepAfter(str, Len(str)).matched

----------------------------------------------------------------------------
(* tokenize.rs.  Offsets are the code's: the character at offset i of a    *)
(* slice chs is chs[i + 1].                                                *)

\* the longest tokenizer input drawn from the whole tokenizer alphabet
MaxTok == 4

TokChars == {"a", "?", "*", "(", ")", "^", "$", "\\", "|"}

\* inputs of the repository's test and of the specification's examples,
\* and the characters the alphabet above leaves out
ExampleTokInputs ==
    { <<"a", "b", "c", "d">>,
      <<"a", "(", "b", "(", "c", "d", ")", "?", ")", "+">>,
      <<"a", "+">>, <<".", "+">>, <<"(", ".", ")", "+">>, <<"+", "a">>,
      <<"a", "^", "b">>, <<"(", "a", "|", "b">>, <<"a", "|", "b">>,
      <<"^", "a", ".", "\\", ".", "$">> }

TokInputs == SeqsUpTo(TokChars, MaxTok) \cup ExampleTokInputs

\* chars.get(i)
Get(chs, i) == IF i < Len(chs) THEN chs[i + 1] ELSE NoChar

\* enum MatchCharacter: Char(char), Wildcard, String(tokens)
MatchChar(c) == [kind |-> "Char", c |-> c, tokens |-> <<>>]
MatchWildcard == [kind |-> "Wildcard", c |-> "", tokens |-> <<>>]
MatchString(vec) == [kind |-> "String", c |-> "", tokens |-> vec]

\* enum Repeat, as far as the tokenizer builds it
Optional == [kind |-> "Optional", n |-> 0]
Exactly(n) == [kind |-> "Exactly", n |-> n]
AtLeast(n) == [kind |-> "AtLeast", n |-> n]

\* what tokenize_one hands back: Ok(token) with the cursor moved on,
\* Err(error) or, for err = "panic", no return at all
TokOk(tok, i) == [err |-> "none", at |-> 0, tok |-> tok, i |-> i]
TokErr(err, at) == [err |-> err, at |-> at, tok |-> <<>>, i |-> at]

\* the end of tokenize_one without its `*i -= 1`: the character after the
\* base token is consumed whatever it is
TakeRepeat_always_consumes(chs, i, value) ==
    LET c == Get(chs, i + 1)
        repeat == IF c = "?" THEN Optional
                  ELSE IF c = "+" THEN AtLeast(1)
                  ELSE IF c = "*" THEN AtLeast(0)
                  ELSE Exactly(1)
    IN  TokOk([repeat |-> repeat, value |-> value], i + 2)

\* the end of tokenize_one: step past the base token whose last character is
\* at offset i, then let the character found there decide the repeat; only a
\* modifier is consumed
TakeRepeat(chs, i, value) ==
    LET c == Get(chs, i + 1)
        repeat == IF c = "?" THEN Optional
                  ELSE IF c = "+" THEN AtLeast(1)
                  ELSE IF c = "*" THEN AtLeast(0)
                  ELSE Exactly(1)
    IN  TokOk([repeat |-> repeat, value |-> value],
              IF c \in Modifiers THEN i + 2 ELSE i + 1)

\* Token::tokenize_one and the loop of its '(' arm
RECURSIVE tokenize_one(_, _)
RECURSIVE GroupLoop(_, _, _)
tokenize_one(chs, i) ==
    IF i >= Len(chs) THEN TokErr("MissingToken", i)
    ELSE LET ch == chs[i + 1] IN
         CASE ch = "\\" ->
                 IF Get(chs, i + 1) = NoChar THEN TokErr("MissingToken", i + 1)
                 ELSE TakeRepeat(chs, i + 1, MatchChar(Get(chs, i + 1)))
           [] ch \in {"^", "$"} -> TokErr("UnexpectedBoundary", i)
           [] ch \in Modifiers -> TokErr("InvalidModifierLocation", i)
           [] ch = "(" ->
                 LET g == GroupLoop(chs, i + 1, <<>>)
                 IN  IF g.err # "none" THEN TokErr(g.err, g.at)
                     ELSE TakeRepeat(chs, g.i, MatchString(g.vec))
           [] ch = ")" -> TokErr("MismatchedGroup", i + 1)
           [] ch = "." -> TakeRepeat(chs, i, MatchWildcard)
           [] ch = "|" -> TokErr("panic", i)
           [] OTHER -> TakeRepeat(chs, i, MatchChar(ch))

GroupLoop(chs, i, vec) ==
    IF i >= Len(chs) THEN [err |-> "MismatchedGroup", at |-> i, i |-> i, vec |-> vec]
    ELSE IF chs[i + 1] = ")" THEN [err |-> "none", at |-> 0, i |-> i, vec |-> vec]
    ELSE LET t == tokenize_one(chs, i)
         IN  IF t.err # "none" THEN [err |-> t.err, at |-> t.at, i |-> i, vec |-> vec]
             ELSE GroupLoop(chs, t.i, Append(vec, t.tok))

\* Result<Tokens>
TokensOk(tokens, bb, eb) ==
    [kind |-> "Ok", err |-> "none", at |-> 0, tokens |-> tokens,
     beginning_boundary |-> bb, end_boundary |-> eb]
TokensErr(err, at) ==
    [kind |-> IF err = "panic" THEN "Panic" ELSE "Err", err |-> err, at |-> at,
     tokens |-> <<>>, beginning_boundary |-> FALSE, end_boundary |-> FALSE]

\* no call of tokenize_regex has returned yet
TokensNone ==
    [kind |-> "none", err |-> "none", at |-> 0, tokens |-> <<>>,
     beginning_boundary |-> FALSE, end_boundary |-> FALSE]

\* the while loop of tokenize_regex over chars[..end]
RECURSIVE TopLoop(_, _, _, _, _)
TopLoop(chs, i, tokens, bb, eb) ==
    IF i >= Len(chs) THEN TokensOk(tokens, bb, eb)
    ELSE LET t == tokenize_one(chs, i)
         IN  IF t.err # "none" THEN TokensErr(t.err, t.at)
             ELSE TopLoop(chs, t.i, Append(tokens, t.tok), bb, eb)

\* Tokens::tokenize_regex
tokenize_regex(e) ==
    LET beginning_boundary == e # <<>> /\ e[1] = "^"
        end_boundary == e # <<>> /\ e[Len(e)] = "$"
        i == IF beginning_boundary THEN 1 ELSE 0
        end == Len(e) - (IF end_boundary THEN 1 ELSE 0)
    IN  TopLoop(SubSeq(e, 1, end), i, <<>>, beginning_boundary, end_boundary)

\* a call of Tokens::tokenize_regex
TokenizeRegex ==
    /\ tokPc = "call"
    /\ tokResult' = tokenize_regex(tokInput)
    /\ tokPc' = "returned"
    /\ UNCHANGED tokInput
    /\ UNCHANGED regexVars

\* The caller of Tokens: one pattern tokenized
InitTok ==
    /\ tokInput \in TokInputs
    /\ tokPc = "call"
    /\ tokResult = TokensNone
    /\ expression = <<>>
    /\ chars = 0
    /\ next = 0
    /\ heap = <<>>
    /\ head = 0
    /\ pc = "idle"
    /\ string = <<>>
    /\ pos = 0
    /\ step = StepDefault
    /\ result = FALSE

NextTok == TokenizeRegex

SpecTok == InitTok /\ [][NextTok]_vars

----------------------------------------------------------------------------
(* The caller of Regex: one pattern compiled, then tested on one subject *)

Init ==
    /\ expression \in Expressions
    /\ chars = Len(expression)
    /\ next = 0
    /\ heap = <<>>
    /\ head = 0
    /\ pc = "compile"
    /\ string = <<>>
    /\ pos = 0
    /\ step = StepDefault
    /\ result = FALSE
    /\ tokInput = <<>>
    /\ tokPc = "idle"
    /\ tokResult = TokensNone

Next ==
    \/ EmptyExpression
    \/ ArmOptional
    \/ ArmPlus
    \/ ArmStar
    \/ ArmSlash
    \/ ArmDot
    \/ ArmChar
    \/ ReturnOk
    \/ TestNone
    \/ TestSome
    \/ TestChar
    \/ TestReturn

Spec == Init /\ [][Next]_vars

----------------------------------------------------------------------------
(* What the claims speak of *)

Inner(p) == SubSeq(p, 2, Len(p) - 1)

\* p occurs in s as a contiguous substring
Occurs(p, s) ==
    \E i \in 0..(Len(s) - Len(p)) : SubSeq(s, i + 1, i + Len(p)) = p

\* only ordinary literal characters
IsLiteral(p) == \A k \in 1..Len(p) : p[k] \notin Modifiers \cup {".", "/"}

\* literal characters and `.`, each followed by at most one modifier
IsQuantified(p) ==
    /\ \A k \in 1..Len(p) : p[k] # "/"
    /\ p # <<>> => p[1] \notin Modifiers
    /\ \A k \in 2..Len(p) : ~(p[k] \in Modifiers /\ p[k - 1] \in Modifiers)

\* w belongs to the language of the tokens of p from position k on, read
\* front to back: x? is zero or one x, x* zero or more, x+ one or more, and
\* `.` is any single character
RECURSIVE InLanguage(_, _, _)
InLanguage(p, k, w) ==
    IF k > Len(p) THEN w = <<>>
    ELSE LET modified == k + 1 <= Len(p) /\ p[k + 1] \in Modifiers
             mod == IF modified THEN p[k + 1] ELSE ""
             rest == IF modified THEN k + 2 ELSE k + 1
             one == w # <<>> /\ (p[k] = "." \/ p[k] = w[1])
         IN  CASE mod = ""  -> one /\ InLanguage(p, rest, Tail(w))
               [] mod = "?" -> \/ InLanguage(p, rest, w)
                               \/ one /\ InLanguage(p, rest, Tail(w))
               [] mod = "*" -> \/ InLanguage(p, rest, w)
                               \/ one /\ InLanguage(p, k, Tail(w))
               [] mod = "+" -> one /\ (\/ InLanguage(p, rest, Tail(w))
                                       \/ InLanguage(p, k, Tail(w)))

SomeSubstringInLanguage(p, s) ==
    \E i \in 1..(Len(s) + 1) : \E j \in (i - 1)..Len(s) :
        InLanguage(p, 1, SubSeq(s, i, j))

\* a modifier that is not itself escaped by a following `/` and that stands
\* first in the pattern or right after another modifier
HasBareModifier(p) ==
    \E k \in 1..Len(p) :
        /\ p[k] \in Modifiers
        /\ k = Len(p) \/ p[k + 1] # "/"
        /\ k = 1 \/ p[k - 1] \in Modifiers

\* the characters with a meaning of their own in tokenize.rs
SpecialChars == Modifiers \cup {"(", ")", "^", "$", "\\", "|", "."}

\* the k-th character is the X of an escape `\X`
RECURSIVE IsEscaped(_, _)
IsEscaped(p, k) == k > 1 /\ p[k - 1] = "\\" /\ ~IsEscaped(p, k - 1)

\* the k-th character is c, and unescaped
Special(p, k, c) == p[k] = c /\ ~IsEscaped(p, k)

\* an unescaped backslash ends the pattern
TrailingBackslash(p) == p # <<>> /\ Special(p, Len(p), "\\")

\* the groups open before the k-th character
Depth(p, k) ==
    Cardinality({j \in 1..(k - 1) : Special(p, j, "(")})
        - Cardinality({j \in 1..(k - 1) : Special(p, j, ")")})

\* what is wrong with the k-th character, if anything
FaultAt(p, k) ==
    IF IsEscaped(p, k) THEN "none"
    ELSE IF /\ p[k] \in Modifiers
            /\ \/ k = 1
               \/ k = 2 /\ p[1] = "^"
               \/ Special(p, k - 1, "(")
               \/ p[k - 1] \in Modifiers /\ ~IsEscaped(p, k - 1)
         THEN "InvalidModifierLocation"
    ELSE IF p[k] = ")" /\ Depth(p, k) = 0 THEN "MismatchedGroup"
    ELSE IF (p[k] = "^" /\ k # 1) \/ (p[k] = "$" /\ k # Len(p))
         THEN "UnexpectedBoundary"
    ELSE "none"

\* the first thing wrong with the pattern, front to back; a group still open
\* shows only where the input ends (and is left undecided when the input
\* ends in a dangling backslash as well)
FirstFault(p) ==
    LET bad == {k \in 1..Len(p) : FaultAt(p, k) # "none"}
    IN  IF bad # {}
        THEN LET k == CHOOSE x \in bad : \A y \in bad : x <= y
             IN  [err |-> FaultAt(p, k), at |-> k - 1]
        ELSE IF Depth(p, Len(p) + 1) > 0 /\ ~TrailingBackslash(p)
        THEN [err |-> "MismatchedGroup", at |-> Len(p)]
        ELSE [err |-> "none", at |-> 0]

\* a pattern of plain characters and escapes `\X` only
OnlyLiteralsAndEscapes(p) ==
    /\ ~TrailingBackslash(p)
    /\ \A k \in 1..Len(p) :
           IsEscaped(p, k) \/ p[k] = "\\" \/ p[k] \notin SpecialChars

\* the literal Char tokens such a pattern stands for
RECURSIVE LiteralTokens(_, _)
LiteralTokens(p, k) ==
    IF k > Len(p) THEN <<>>
    ELSE IF p[k] = "\\"
    THEN <<[repeat |-> Exactly(1), value |-> MatchChar(p[k + 1])]>>
             \o LiteralTokens(p, k + 2)
    ELSE <<[repeat |-> Exactly(1), value |-> MatchChar(p[k])]>>
             \o LiteralTokens(p, k + 1)

\* some token of the tree is an alternation
RECURSIVE HasOr(_)
HasOr(tokens) ==
    \E k \in 1..Len(tokens) :
        tokens[k].value.kind = "Or" \/ HasOr(tokens[k].value.tokens)

\* the pattern text a token tree stands for
RECURSIVE Unparse(_)
UnparseRepeat(r) ==
    IF r = Optional THEN <<"?">>
    ELSE IF r = AtLeast(1) THEN <<"+">>
    ELSE IF r = AtLeast(0) THEN <<"*">>
    ELSE IF r = Exactly(1) THEN <<>>
    ELSE <<"{">>

UnparseToken(t) ==
    (CASE t.value.kind = "Char" ->
              IF t.value.c \in SpecialChars THEN <<"\\", t.value.c>>
              ELSE <<t.value.c>>
       [] t.value.kind = "Wildcard" -> <<".">>
       [] t.value.kind = "String" ->
              <<"(">> \o Unparse(t.value.tokens) \o <<")">>
       [] OTHER -> <<"|">>)
    \o UnparseRepeat(t.repeat)

Unparse(tokens) ==
    IF tokens = <<>> THEN <<>>
    ELSE UnparseToken(Head(tokens)) \o Unparse(Tail(tokens))

UnparseAll(r) ==
    (IF r.beginning_boundary THEN <<"^">> ELSE <<>>)
        \o Unparse(r.tokens)
        \o (IF r.end_boundary THEN <<"$">> ELSE <<>>)

\* the pattern without its needless escapes: `\X` for a plain X is X
RECURSIVE Canon(_)
Canon(p) ==
    IF p = <<>> THEN <<>>
    ELSE IF p[1] = "\\" /\ Len(p) >= 2
    THEN (IF p[2] \in SpecialChars THEN <<"\\", p[2]>> ELSE <<p[2]>>)
             \o Canon(SubSeq(p, 3, Len(p)))
    ELSE <<p[1]>> \o Canon(Tail(p))

\* Tk!(repeat, value) of the tests
Tk(repeat, value) == [repeat |-> repeat, value |-> value]

----------------------------------------------------------------------------
(* Claims about Regex *)

\* C1: for a pattern of ordinary literal characters only, test is true
\* exactly when the pattern occurs in the subject as a contiguous substring.
C1_LiteralIsSubstringSearch ==
    (pc = "done" /\ IsLiteral(expression))
        => (result <=> Occurs(expression, string))

\* a literal pattern of several characters found strictly inside a longer
\* subject, the match ending before the subject does
C1_Witness ==
    /\ pc = "done"
    /\ IsLiteral(expression)
    /\ Len(expression) >= 2
    /\ result = TRUE
    /\ Len(string) > Len(expression)
    /\ SubSeq(string, Len(string) - Len(expression) + 1, Len(string)) # expression

\* C2: for a pattern of literals and `.`, each with at most one of ? * +,
\* and a non-empty subject, test is true exactly when some contiguous
\* substring of the subject belongs to the pattern's language.
C2_QuantifiedLanguage ==
    (pc = "done" /\ IsQuantified(expression) /\ string # <<>>)
        => (result <=> SomeSubstringInLanguage(expression, string))

\* `ab*c` run over `abbc`
C2_Witness ==
    /\ pc = "done"
    /\ expression = <<"a", "b", "*", "c">>
    /\ string = <<"a", "b", "b", "c">>
    /\ result = TRUE

\* C3: the empty pattern compiles, and its Regex matches every subject.
C3_EmptyPatternMatchesAll ==
    (expression = <<>> /\ pc # "compile")
        => /\ pc \in {"ok", "done"}
           /\ head = 0
           /\ pc = "done" => result = TRUE

\* the empty pattern tested on the empty subject
C3_Witness ==
    /\ expression = <<>>
    /\ pc = "done"
    /\ string = <<>>
    /\ result = TRUE

\* C4: `^p$` with p literal matches a subject exactly when the subject is p;
\* `^$` matches the empty string and nothing else.
C4_AnchoredIsEquality ==
    (pc = "done" /\ expression \in Anchored)
        => (result <=> string = Inner(expression))

\* C5: `(ab)+` matches ab, abab and ababab, and matches neither a nor aba.
C5_GroupRepeats ==
    (pc = "done" /\ expression = <<"(", "a", "b", ")", "+">>)
        => /\ string \in { <<"a", "b">>, <<"a", "b", "a", "b">>,
                           <<"a", "b", "a", "b", "a", "b">> } => result = TRUE
           /\ string \in { <<"a">>, <<"a", "b", "a">> } => result = FALSE

\* C7: a pattern with a modifier that has no operand (first in the pattern,
\* or right after another modifier) is refused: from_simple_expression ends
\* in Err(MissingValue) and no Regex exists.
C7_BareModifierIsRefused ==
    (pc # "compile" /\ HasBareModifier(expression))
        => (pc = "err" /\ head = 0 /\ heap = <<>>)

\* `a+?` refused
C7_Witness ==
    /\ pc = "err"
    /\ expression = <<"a", "+", "?">>

----------------------------------------------------------------------------
(* Claims about Tokens *)

\* C6: tokenize_regex never returns Ok for a malformed pattern and reports
\* the matching error kind: a modifier with no operand gives
\* InvalidModifierLocation at the modifier's offset, a group still open at
\* the end of the input or a `)` with no open group gives MismatchedGroup, a
\* misplaced unescaped `^` or `$` gives UnexpectedBoundary.
C6_MalformedIsReported ==
    (tokPc = "returned" /\ FirstFault(tokInput).err # "none")
        => /\ tokResult.kind = "Err"
           /\ tokResult.err = FirstFault(tokInput).err
           /\ tokResult.err = "InvalidModifierLocation"
                  => tokResult.at = FirstFault(tokInput).at

\* C6 on the patterns without `\` and `|`: there the report is as claimed.
C6_OnPatternsWithoutEscapeAndBar ==
    (/\ tokPc = "returned"
     /\ \A k \in 1..Len(tokInput) : tokInput[k] \notin {"\\", "|"}
     /\ FirstFault(tokInput).err # "none")
        => /\ tokResult.kind = "Err"
           /\ tokResult.err = FirstFault(tokInput).err
           /\ tokResult.err = "InvalidModifierLocation"
                  => tokResult.at = FirstFault(tokInput).at

\* C8: `\X` yields the literal token Char(X) for every X and at every
\* position, the last two characters included; a trailing backslash is an
\* error.
C8_EscapeIsLiteral ==
    tokPc = "returned"
        => /\ TrailingBackslash(tokInput) => tokResult.kind # "Ok"
           /\ OnlyLiteralsAndEscapes(tokInput)
                  => tokResult = TokensOk(LiteralTokens(tokInput, 1), FALSE, FALSE)

\* C9: tokenize_regex returns Ok or Err for every pattern and never aborts;
\* an unescaped `|` is parsed into an alternation token.
C9_AlwaysReturns ==
    tokPc = "returned"
        => /\ tokResult.kind \in {"Ok", "Err"}
           /\ (\E k \in 1..Len(tokInput) : Special(tokInput, k, "|"))
                  => (tokResult.kind = "Ok" => HasOr(tokResult.tokens))

----------------------------------------------------------------------------
(* The compiled graph, read as a value *)

\* the value of an Option<Rc<State>> as the derived PartialEq compares it:
\* None is <<>>, Some(state) is <<state>> with its branch and its next read
\* the same way.  Defined for graphs without a loop.
RECURSIVE Graph(_)
Graph(p) ==
    IF p = 0 THEN <<>>
    ELSE LET cell == heap[p]
         IN  <<[kind |-> cell.kind, c |-> cell.c, weak |-> cell.weak,
                branch |-> Graph(cell.branch), next |-> Graph(cell.next)]>>

NoStarPlus(p) == \A k \in 1..Len(p) : p[k] \notin {"*", "+"}

\* the pattern from its k-th character on, read front to back: a character
\* followed by `/` is that character taken literally, `.` is a Wildcard,
\* any other character that is not a modifier or `/` is a Char, and a `?`
\* after one of these (unless the `?` is itself followed by `/`) wraps it
\* in a Split that shares the rest.  `ok` says the pattern reads this way
\* to its end, `escopt` that a `?` was applied to a character escaped by `/`.
RECURSIVE ForwardChain(_, _)
ForwardChain(p, k) ==
    IF k > Len(p) THEN [ok |-> TRUE, tree |-> <<>>, escopt |-> FALSE]
    ELSE LET esc == k + 1 <= Len(p) /\ p[k + 1] = "/"
             plain == p[k] \notin Modifiers \cup {"/"}
             kind == IF ~esc /\ p[k] = "." THEN "Wildcard" ELSE "Char"
             after == IF esc THEN k + 2 ELSE k + 1
             opt == /\ after <= Len(p)
                    /\ p[after] = "?"
                    /\ ~(after + 1 <= Len(p) /\ p[after + 1] = "/")
             rest == ForwardChain(p, IF opt THEN after + 1 ELSE after)
             unit == [kind |-> kind, c |-> IF kind = "Char" THEN p[k] ELSE "",
                      weak |-> FALSE, branch |-> <<>>, next |-> rest.tree]
         IN  IF ~(esc \/ plain) \/ ~rest.ok
             THEN [ok |-> FALSE, tree |-> <<>>, escopt |-> FALSE]
             ELSE [ok |-> TRUE,
                   tree |-> IF opt
                            THEN <<[kind |-> "Split", c |-> "", weak |-> FALSE,
                                    branch |-> <<unit>>, next |-> rest.tree]>>
                            ELSE <<unit>>,
                   escopt |-> rest.escopt \/ (esc /\ opt)]

----------------------------------------------------------------------------
(* Claims about the compiled graph *)

----------------------------------------------------------------------------
(* Claims about the run of test *)

\* C12: the result of test does not depend on the order in which Step::step
\* visits `current`: whatever orders the HashSets gave so far, the Step is
\* the one a run in one fixed order has after the same characters, and the
\* value returned is that run's.
C12_OrderIndependent ==
    /\ pc = "test" => step = StepAfter(string, pos)
    /\ pc = "done" => result = TestOf(string)

\* a step has iterated over a `current` of three states, two of which added
\* their successors
C12_Witness ==
    /\ pc = "test"
    /\ pos >= 1
    /\ Cardinality(step.current) >= 3
    /\ Cardinality(step.next) >= 2
    /\ step = StepAfter(string, pos)

\* add_state(heap[s]) returns with at most `fuel` nested invocations
RECURSIVE Closes(_, _)
Closes(s, fuel) ==
    IF fuel = 0 THEN FALSE
    ELSE LET cell == heap[s]
         IN  \/ cell.kind \in {"Char", "Wildcard"}
             \/ /\ Closes(cell.branch, fuel - 1)
                /\ cell.next = 0 \/ Closes(cell.next, fuel - 1)

\* C13: test terminates and returns a boolean on every compiled Regex and
\* every subject.  No chain of Splits, followed along branch and next, is
\* longer than the graph has cells, so every loop of the graph passes
\* through a Char or a Wildcard and add_state returns; the for loop has
\* consumed at most the subject, can always go on (one seeding and one step
\* for the next character, or the return), and test returns a boolean when
\* it has consumed every character once.
C13_TestTerminates ==
    /\ \A s \in 1..Len(heap) : Closes(s, Len(heap))
    /\ pc = "test" => /\ pos <= Len(string)
                      /\ ENABLED (TestChar \/ TestReturn)
    /\ (pc = "done" /\ head # 0) => /\ pos = Len(string)
                                    /\ result \in BOOLEAN
    /\ (pc = "done" /\ head = 0) => result \in BOOLEAN

\* test has returned from a run of several characters over a graph with a
\* loop, and from a run over the empty subject
C13_Witness ==
    /\ pc = "done"
    /\ \E s \in 1..Len(heap) : heap[s].kind = "Split" /\ heap[s].weak
    /\ pos = Len(string)
    /\ pos >= 3
    /\ result

C13_WitnessEmptySubject ==
    /\ pc = "done"
    /\ head # 0
    /\ string = <<>>
    /\ result \in BOOLEAN

----------------------------------------------------------------------------
(* Claims about ownership *)

\* the Splits of the heap whose branch is a Ptr::Weak
WeakSplits == {s \in 1..Len(heap) : heap[s].kind = "Split" /\ heap[s].weak}

\* C14: while the Regex lives, the State a Weak branch points at has a
\* strong count of at least 1.
C14_WeakBranchesOwned ==
    pc \in {"ok", "test", "done"}
        => \A s \in WeakSplits : heap[heap[s].branch].strong >= 1

\* the same for the Regex of a pattern without `*`: the loops of `x+`
C14_PlusLoopsOwned ==
    (pc \in {"ok", "test", "done"} /\ \A k \in 1..Len(expression) : expression[k] # "*")
        => \A s \in WeakSplits : heap[heap[s].branch].strong >= 1

----------------------------------------------------------------------------
(* Claims about the matched flag *)

\* a substring of s ending with its j-th character (or empty, at j) belongs
\* to the language of p
MatchEndsAt(p, s, j) ==
    \E i \in 1..(j + 1) : InLanguage(p, 1, SubSeq(s, i, j))

EndAnchored(p) == p # <<>> /\ p[Len(p)] = "$"

\* C15, as stated: for a pattern that is not end-anchored `matched` is
\* reset before each step, so after a step it is true only if a match ends
\* at the current position, and test returns whether a match ends at the
\* final position.
C15_MatchedIsReset ==
    (IsQuantified(expression) /\ ~EndAnchored(expression))
        => /\ (pc = "test" /\ pos >= 1 /\ step.matched)
                  => MatchEndsAt(expression, string, pos)
           /\ (pc = "done" /\ string # <<>>)
                  => (result <=> MatchEndsAt(expression, string, Len(string)))

\* C15, amended: `matched` is never reset, so after a step it is true
\* exactly when a match has ended at or before the current position, and
\* test on a non-empty subject returns whether a match ends anywhere in it.
C15_MatchedIsSticky ==
    (IsQuantified(expression) /\ ~EndAnchored(expression))
        => /\ pc = "test"
                  => (step.matched <=>
                        /\ pos >= 1
                        /\ \E j \in 0..pos : MatchEndsAt(expression, string, j))
           /\ (pc = "done" /\ string # <<>>)
                  => (result <=>
                        \E j \in 0..Len(string) : MatchEndsAt(expression, string, j))

\* after a step `matched` is still true from a match that ended earlier,
\* none ending at the current position
C15_Witness ==
    /\ pc = "test"
    /\ IsQuantified(expression) /\ ~EndAnchored(expression)
    /\ pos >= 2
    /\ step.matched
    /\ ~MatchEndsAt(expression, string, pos)
    /\ MatchEndsAt(expression, string, pos - 1)

----------------------------------------------------------------------------
(* Claims about the work of a run *)

\* C16: while one character is processed each state is closed over at most
\* once, so after pos characters add_state has been invoked at most pos
\* times the number of states of the automaton.
C16_ClosureIsLinear ==
    pc \in {"test", "done"} => step.calls <= pos * Len(heap)

\* the same with the square of the number of states for each character
C16_ClosureIsQuadratic ==
    pc \in {"test", "done"} => step.calls <= pos * Len(heap) * Len(heap)

----------------------------------------------------------------------------
(* Claims about the sets of a Step *)

\* C17: during test, `current` and `next` hold Char and Wildcard states
\* only, never a Split, and matches() has not met its unreachable!() arm.
C17_NoSplitInSets ==
    pc \in {"test", "done"}
        => /\ \A s \in step.current \cup step.next :
                  heap[s].kind \in {"Char", "Wildcard"}
           /\ ~step.panic

\* a step has run over a non-empty `current` and filled `next` on a graph
\* whose head is a Split
C17_Witness ==
    /\ pc = "test"
    /\ pos >= 1
    /\ heap[head].kind = "Split"
    /\ step.current # {}
    /\ step.next # {}
    /\ ~step.panic

----------------------------------------------------------------------------
(* Claims about the offsets of the tokenizer's errors *)

\* the input as tokenize_one scans it: without the `$` that ends it
Scanned(p) ==
    IF p # <<>> /\ p[Len(p)] = "$" THEN SubSeq(p, 1, Len(p) - 1) ELSE p

\* offset `at` of p holds an unescaped `)` with no group open before it
UnmatchedCloseAt(p, at) ==
    at < Len(p) /\ Special(p, at + 1, ")") /\ Depth(p, at + 1) = 0

\* the error err at offset `at` is where the claim puts it; a `)` is
\* reported `shift` characters after its own offset
OffsetIsWhereDetected(p, err, at, shift) ==
    LET q == Scanned(p) IN
    CASE err = "InvalidModifierLocation" ->
             at < Len(q) /\ q[at + 1] \in Modifiers
      [] err = "UnexpectedBoundary" ->
             at < Len(q) /\ q[at + 1] \in {"^", "$"}
      [] err = "MismatchedGroup" ->
             \/ at >= shift /\ UnmatchedCloseAt(q, at - shift)
             \/ at = Len(q) /\ Depth(q, Len(q) + 1) > 0
      [] err = "MissingToken" ->
             at = Len(q) /\ q # <<>> /\ q[Len(q)] = "\\"
      [] OTHER -> FALSE

\* C18: the `at` of every error is the offset of the offending character (a
\* misplaced modifier, a misplaced `^` or `$`, an unmatched `)`), or the
\* offset just past the scanned input when the input ran out (a group left
\* open, a trailing backslash).
C18_OffsetIsWhereDetected ==
    (tokPc = "returned" /\ tokResult.kind = "Err")
        => OffsetIsWhereDetected(tokInput, tokResult.err, tokResult.at, 0)

\* the same, an unmatched `)` being reported one past its own offset
C18_CloseIsReportedOnePast ==
    (tokPc = "returned" /\ tokResult.kind = "Err")
        => OffsetIsWhereDetected(tokInput, tokResult.err, tokResult.at, 1)

----------------------------------------------------------------------------
(* Claims relating the runs of test on different subjects *)

\* the subjects that extend s by one character, in front or behind; every
\* u . s . v is reached from s by such extensions
ExtendedByOne(s) ==
    {<<c>> \o s : c \in Letters} \cup {Append(s, c) : c \in Letters}

\* C19: matching is monotone under extending the subject: when test(s) is
\* true, so is test of s with a character put in front of it or behind it,
\* and hence test(u . s . v) for all u and v.
C19_Monotone ==
    (pc = "done" /\ result) => \A t \in ExtendedByOne(string) : TestOf(t)

\* test was true on a non-empty subject for a pattern that does not match
\* everything, and is true on the subject extended on either side
C19_Witness ==
    /\ pc = "done"
    /\ result
    /\ head # 0
    /\ string # <<>>
    /\ ~TestOf(<<"b">>)
    /\ TestOf(<<"b">> \o string)
    /\ TestOf(Append(string, "b"))

\* the language of p, read front to back, contains the empty string
Nullable(p) == IsQuantified(p) /\ InLanguage(p, 1, <<>>)

\* C20: a pattern whose language contains the empty string matches every
\* subject, the empty subject included.
C20_NullableMatchesAll ==
    (pc = "done" /\ Nullable(expression)) => result

\* the same on the subjects that are not empty
C20_NullableMatchesNonEmpty ==
    (pc = "done" /\ Nullable(expression) /\ string # <<>>) => result

====
